---- MODULE Spec2Model ----
(***************************************************************************)
(* Model of src/main.py: a FastAPI application with nine request handlers  *)
(* over three MySQL tables (users, mentors, service_providers).  Every     *)
(* request runs in its own session (get_db); requests of different         *)
(* clients interleave at statement boundaries.                             *)
(*                                                                         *)
(* Text columns that the code inspects (password, password_hash,           *)
(* expertise, service_type) are sequences of one-character strings; text   *)
(* columns the code only stores and compares for equality are strings.     *)
(***************************************************************************)
EXTENDS Integers, Sequences, FiniteSets, TLC

\* ------------------------------------------------------------------ bounds
NumProcs == 2          \* concurrent request workers
MaxRows == 2           \* INSERT statements issued per table (Spec, SpecSearch)
MaxListRows == 15      \* INSERT statements issued on mentors (SpecList)
MaxSkip == 16          \* largest skip parameter sent (SpecList)
MaxLimit == 11         \* largest limit parameter sent (SpecList)
MaxQueryLen == 2       \* longest search string sent (SpecSearch)

\* ------------------------------------------------------- program constants
DefaultSkip == 0
DefaultLimit == 10
ConflictStatus == 400
NotFoundStatus == 404
OkStatus == 200
\* an exception no handler catches: the framework answers 500
ServerErrorStatus == 500

Procs == 1..NumProcs

VARIABLES
    users,          \* table users, in primary-key order
    mentors,        \* table mentors
    providers,      \* table service_providers
    autoinc,        \* the AUTO_INCREMENT counter of each table
    sessions,       \* number of sessions opened by SessionLocal() and not closed
    pc,             \* pc[p]: where worker p is in its request
    op,             \* op[p]: the request worker p serves (handler and parameters)
    result,         \* result[p]: the response the handler produced
    returned        \* provider registrations answered so far: {[id, input]}

vars == <<users, mentors, providers, autoinc, sessions, pc, op, result, returned>>
tables == <<users, mentors, providers>>

\* ------------------------------------------------------------------- text
Min(a, b) == IF a < b THEN a ELSE b
Max(a, b) == IF a > b THEN a ELSE b

Lower(c) == CASE c = "D" -> "d" [] c = "A" -> "a" [] OTHER -> c
LowerText(s) == [i \in 1..Len(s) |-> Lower(s[i])]

\* MySQL LIKE: % matches any run, _ any one character, \ escapes the next one
RECURSIVE Like(_, _)
Like(s, pat) ==
    IF pat = <<>> THEN s = <<>>
    ELSE IF Head(pat) = "%"
        THEN Like(s, Tail(pat)) \/ (s # <<>> /\ Like(Tail(s), pat))
    ELSE IF Head(pat) = "_"
        THEN s # <<>> /\ Like(Tail(s), Tail(pat))
    ELSE IF Head(pat) = "\\" /\ Len(pat) >= 2
        THEN s # <<>> /\ Head(s) = pat[2] /\ Like(Tail(s), Tail(Tail(pat)))
    ELSE s # <<>> /\ Head(s) = Head(pat) /\ Like(Tail(s), Tail(pat))

\* column.ilike(pattern): lower(column) LIKE lower(pattern)
ILike(col, pat) == Like(LowerText(col), LowerText(pat))

\* f"%{q}%"
SearchPattern(q) == <<"%">> \o q \o <<"%">>

\* ------------------------------------------------------------ the store
\* query results are sequences of rows; .first() keeps at most one row, and
\* None (no row) is the empty result
First(rows) == IF rows = <<>> THEN <<>> ELSE <<Head(rows)>>
None == <<>>

\* .filter(User.email == email), .filter(ServiceProvider.id == provider_id)
\* faulty variant: the existence check finds nothing
WhereEmailNever(table, email) == <<>>
WhereEmail(table, email) == SelectSeq(table, LAMBDA row : row.email = email)
\* faulty variant: the id filter written with >= instead of ==
WhereIdAtLeast(table, id) == SelectSeq(table, LAMBDA row : row.id >= id)
WhereId(table, id) == SelectSeq(table, LAMBDA row : row.id = id)

\* .offset(skip).limit(limit).all()
\* faulty variant: the offset taken one row early
OffsetOneEarly(rows, skip) == SubSeq(rows, Max(skip, 1), Len(rows))
Offset(rows, skip) == SubSeq(rows, skip + 1, Len(rows))
Limit(rows, limit) == SubSeq(rows, 1, Min(limit, Len(rows)))
Page(rows, skip, limit) == Limit(Offset(rows, skip), limit)

\* skip: int = 0, limit: int = 10: a parameter the client left out takes its default
SkipOf(params) == IF "skip" \in DOMAIN params THEN params["skip"] ELSE DefaultSkip
LimitOf(params) == IF "limit" \in DOMAIN params THEN params["limit"] ELSE DefaultLimit

\* .filter(Mentor.expertise.ilike(pattern)), and the same on service_type
WhereExpertiseILike(table, pat) ==
    SelectSeq(table, LAMBDA row : ILike(row.expertise, pat))
WhereServiceTypeILike(table, pat) ==
    SelectSeq(table, LAMBDA row : ILike(row.service_type, pat))

\* faulty variant: the write replaces the newest row instead of adding one
InsertOverLast(table, row) ==
    IF table = <<>> THEN <<row>> ELSE [table EXCEPT ![Len(table)] = row]

\* INSERT: the new row goes after the rows already there
Insert(table, row) == Append(table, row)

\* faulty variant: the email column declared without unique=True
NoUniqueIndex(table, email) == FALSE

\* users.email is UNIQUE: an INSERT of an email already there is refused
UniqueViolation(table, email) == \E i \in 1..Len(table) : table[i].email = email

\* bcrypt.hashpw(password, gensalt()): version tag, then the salt, then a
\* digest of fixed length computed from salt and password
Code(c) == CASE c = "p" -> 1 [] c = "q" -> 2 [] c = "s" -> 3 [] c = "t" -> 5
             [] OTHER -> 7
RECURSIVE CodeSum(_)
CodeSum(s) == IF s = <<>> THEN 0 ELSE Code(Head(s)) + 3 * CodeSum(Tail(s))
DigestChars == <<"w", "x", "y", "z">>
Digest(salt, password) == <<DigestChars[(CodeSum(salt \o password) % 4) + 1]>>
HashPassword(password, salt) ==
    <<"$", "2", "b", "$">> \o salt \o Digest(salt, password)

\* ----------------------------------------------------------------- inputs
Salts == {<<"s">>, <<"t">>}

UserInputs ==
    { [name |-> "Ann", email |-> "ann@x.org", phone |-> "100",
       preferred_language |-> "en", role |-> "farmer", password |-> <<"p">>],
      [name |-> "Ann", email |-> "ann@x.org", phone |-> "100",
       preferred_language |-> "en", role |-> "farmer", password |-> <<"q", "p">>],
      [name |-> "Bob", email |-> "bob@x.org", phone |-> "200",
       preferred_language |-> "hi", role |-> "mentor", password |-> <<"p">>] }

MentorInputs ==
    { [name |-> "Mia", age |-> 40, location |-> "Pune",
       expertise |-> <<"D", "a">>, experience |-> 9],
      [name |-> "Raj", age |-> 35, location |-> "Agra",
       expertise |-> <<"a", "_", "d">>, experience |-> 4] }

ProviderInputs ==
    { [name |-> "Tow", service_type |-> <<"d", "A">>, experience |-> 3,
       pricing_model |-> "hourly", availability |-> "weekdays"],
      [name |-> "Fix", service_type |-> <<"%", "a">>, experience |-> 7,
       pricing_model |-> "fixed", availability |-> "daily"] }

Chars == {"d", "D", "a", "%", "_", "\\"}
RECURSIVE TextsUpTo(_)
TextsUpTo(n) ==
    IF n = 0 THEN {<<>>}
    ELSE LET shorter == TextsUpTo(n - 1)
         IN  shorter \cup {Append(t, c) : t \in shorter, c \in Chars}

\* ---------------------------------------------------------------- requests
RegisterKinds == {"register_user", "register_mentor", "register_service_provider"}

TableOf(kind) ==
    CASE kind \in {"register_user", "fetch_users"} -> "users"
      [] kind \in {"register_mentor", "fetch_mentors",
                   "search_mentors_by_expertise"} -> "mentors"
      [] OTHER -> "service_providers"

RegisterRequests(userIn, mentorIn, providerIn) ==
    {[kind |-> "register_user", form |-> f, hashed_password |-> None] : f \in userIn}
    \cup {[kind |-> "register_mentor", form |-> f] : f \in mentorIn}
    \cup {[kind |-> "register_service_provider", form |-> f] : f \in providerIn}

\* skip and limit are optional: params holds the ones the client sent
ListParams(skips, limits) ==
    {[n \in {"skip", "limit"} |-> IF n = "skip" THEN s ELSE l] :
        s \in skips, l \in limits}
    \cup {[n \in {"skip"} |-> s] : s \in skips}
    \cup {[n \in {"limit"} |-> l] : l \in limits}
    \cup {<<>>}

ListRequests(skips, limits) ==
    {[kind |-> k, params |-> ps] :
        k \in {"fetch_users", "fetch_mentors", "fetch_service_providers"},
        ps \in ListParams(skips, limits)}

SearchRequests(queries) ==
    {[kind |-> "search_mentors_by_expertise", expertise |-> q] : q \in queries}
    \cup {[kind |-> "search_service_providers", service_type |-> q] : q \in queries}

GetRequests(ids) == {[kind |-> "fetch_service_provider", provider_id |-> i] : i \in ids}

NoOp == [kind |-> "none"]
NoResult == [status_code |-> 0]

\* requests being served whose INSERT is still to come
Pending(kind) ==
    Cardinality({p \in Procs : op[p].kind = kind /\ pc[p] \in {"handler", "commit"}})

\* ------------------------------------------------------------------- Init
Init ==
    /\ users = <<>>
    /\ mentors = <<>>
    /\ providers = <<>>
    /\ autoinc = [t \in {"users", "mentors", "service_providers"} |-> 1]
    /\ sessions = 0
    /\ pc = [p \in Procs |-> "idle"]
    /\ op = [p \in Procs |-> NoOp]
    /\ result = [p \in Procs |-> NoResult]
    /\ returned = {}

\* ----------------------------------------------------------------- get_db
\* db = SessionLocal(); the request is decoded and the handler is entered.
\* cap[t] bounds the INSERTs issued on table t.
SessionsAfterOpen(n) == n + 1

get_db(p, requests, cap) ==
    /\ pc[p] = "idle"
    /\ \E r \in requests :
        /\ r.kind \in RegisterKinds =>
               autoinc[TableOf(r.kind)] + Pending(r.kind) <= cap[TableOf(r.kind)]
        /\ op' = [op EXCEPT ![p] = r]
    /\ sessions' = SessionsAfterOpen(sessions)
    /\ pc' = [pc EXCEPT ![p] = "handler"]
    /\ UNCHANGED <<tables, autoinc, result, returned>>

\* faulty variant: db.close() written after the yield without try/finally: it is
\* skipped when the handler raised
SessionsAfterCloseNoFinally(n, status_code) ==
    IF status_code = OkStatus THEN n - 1 ELSE n

\* finally: db.close(), after the handler returned or raised
SessionsAfterClose(n, status_code) == n - 1

get_db_close(p) ==
    /\ pc[p] = "closing"
    /\ sessions' = SessionsAfterClose(sessions, result[p].status_code)
    /\ pc' = [pc EXCEPT ![p] = "idle"]
    /\ op' = [op EXCEPT ![p] = NoOp]
    /\ result' = [result EXCEPT ![p] = NoResult]
    /\ UNCHANGED <<tables, autoinc, returned>>

\* the handler ends with a response or an HTTPException
Respond(p, status_code, body) ==
    /\ result' = [result EXCEPT ![p] = [status_code |-> status_code, body |-> body]]
    /\ pc' = [pc EXCEPT ![p] = "closing"]


\* ------------------------------------------------------------- register_user
UserRow(id, form, hashed_password) ==
    [id |-> id, name |-> form.name, email |-> form.email, phone |-> form.phone,
     preferred_language |-> form.preferred_language, role |-> form.role,
     password_hash |-> hashed_password]

\* faulty variant: the response built from the whole row
UserResponseWholeRow(row) == row

UserResponse(row) ==
    [id |-> row.id, name |-> row.name, email |-> row.email, phone |-> row.phone,
     preferred_language |-> row.preferred_language, role |-> row.role]

\* lines 73-76: the existence check, then hash_password
register_user_check(p) ==
    /\ pc[p] = "handler"
    /\ op[p].kind = "register_user"
    /\ IF First(WhereEmail(users, op[p].form.email)) # None
       THEN /\ Respond(p, ConflictStatus, "Email already registered")
            /\ UNCHANGED op
       ELSE /\ \E salt \in Salts :
                 op' = [op EXCEPT ![p].hashed_password =
                            HashPassword(op[p].form.password, salt)]
            /\ pc' = [pc EXCEPT ![p] = "commit"]
            /\ UNCHANGED result
    /\ UNCHANGED <<tables, autoinc, sessions, returned>>

\* lines 77-96: db.add, db.commit, db.refresh, the response.  The INSERT takes
\* the next AUTO_INCREMENT value also when the UNIQUE index refuses the row;
\* the IntegrityError that db.commit then raises is caught nowhere.  db.refresh
\* reads the row back by its key and the response is built from it.
register_user_commit(p) ==
    /\ pc[p] = "commit"
    /\ op[p].kind = "register_user"
    /\ autoinc' = [autoinc EXCEPT !["users"] = @ + 1]
    /\ IF UniqueViolation(users, op[p].form.email)
       THEN /\ Respond(p, ServerErrorStatus, "IntegrityError")
            /\ UNCHANGED tables
       ELSE /\ users' = Insert(users,
                   UserRow(autoinc["users"], op[p].form, op[p].hashed_password))
            /\ Respond(p, OkStatus,
                       UserResponse(Head(WhereId(users', autoinc["users"]))))
            /\ UNCHANGED <<mentors, providers>>
    /\ UNCHANGED <<sessions, op, returned>>

\* line 102
fetch_users(p) ==
    /\ pc[p] = "handler"
    /\ op[p].kind = "fetch_users"
    /\ Respond(p, OkStatus, Page(users, SkipOf(op[p].params), LimitOf(op[p].params)))
    /\ UNCHANGED <<tables, autoinc, sessions, op, returned>>

\* ----------------------------------------------------------- register_mentor
MentorRow(id, form) ==
    [id |-> id, name |-> form.name, age |-> form.age, location |-> form.location,
     expertise |-> form.expertise, experience |-> form.experience]

MentorResponse(row) ==
    [id |-> row.id, name |-> row.name, age |-> row.age, location |-> row.location,
     expertise |-> row.expertise, experience |-> row.experience]

\* lines 114-132: db.add, db.commit, db.refresh, the response
register_mentor(p) ==
    /\ pc[p] = "handler"
    /\ op[p].kind = "register_mentor"
    /\ autoinc' = [autoinc EXCEPT !["mentors"] = @ + 1]
    /\ mentors' = Insert(mentors, MentorRow(autoinc["mentors"], op[p].form))
    /\ Respond(p, OkStatus, MentorResponse(Head(WhereId(mentors', autoinc["mentors"]))))
    /\ UNCHANGED <<users, providers, sessions, op, returned>>

\* line 136
fetch_mentors(p) ==
    /\ pc[p] = "handler"
    /\ op[p].kind = "fetch_mentors"
    /\ Respond(p, OkStatus, Page(mentors, SkipOf(op[p].params), LimitOf(op[p].params)))
    /\ UNCHANGED <<tables, autoinc, sessions, op, returned>>

\* lines 142-145
search_mentors_by_expertise(p) ==
    /\ pc[p] = "handler"
    /\ op[p].kind = "search_mentors_by_expertise"
    /\ LET found == WhereExpertiseILike(mentors, SearchPattern(op[p].expertise))
       IN  IF found = <<>>
           THEN Respond(p, NotFoundStatus, "No mentors found with the given expertise")
           ELSE Respond(p, OkStatus, found)
    /\ UNCHANGED <<tables, autoinc, sessions, op, returned>>

\* ------------------------------------------------- register_service_provider
ProviderRow(id, form) ==
    [id |-> id, name |-> form.name, service_type |-> form.service_type,
     experience |-> form.experience, pricing_model |-> form.pricing_model,
     availability |-> form.availability]

ProviderResponse(row) ==
    [id |-> row.id, name |-> row.name, service_type |-> row.service_type,
     experience |-> row.experience, pricing_model |-> row.pricing_model,
     availability |-> row.availability]

\* faulty variant: the key column without autoincrement: the counter never moves
SameProviderId(counter) == counter

NextProviderId(counter) == counter + 1

\* lines 157-175: db.add, db.commit, db.refresh, the response
register_service_provider(p) ==
    /\ pc[p] = "handler"
    /\ op[p].kind = "register_service_provider"
    /\ autoinc' = [autoinc EXCEPT !["service_providers"] = NextProviderId(@)]
    /\ providers' = Insert(providers,
                          ProviderRow(autoinc["service_providers"], op[p].form))
    /\ LET body == ProviderResponse(
                       Head(WhereId(providers', autoinc["service_providers"])))
       IN  /\ Respond(p, OkStatus, body)
           /\ returned' = returned \cup {[id |-> body.id, form |-> op[p].form]}
    /\ UNCHANGED <<users, mentors, sessions, op>>

\* line 179
fetch_service_providers(p) ==
    /\ pc[p] = "handler"
    /\ op[p].kind = "fetch_service_providers"
    /\ Respond(p, OkStatus,
               Page(providers, SkipOf(op[p].params), LimitOf(op[p].params)))
    /\ UNCHANGED <<tables, autoinc, sessions, op, returned>>

\* lines 183-186
fetch_service_provider(p) ==
    /\ pc[p] = "handler"
    /\ op[p].kind = "fetch_service_provider"
    /\ LET provider == First(WhereId(providers, op[p].provider_id))
       IN  IF provider = None
           THEN Respond(p, NotFoundStatus, "Service provider not found")
           ELSE Respond(p, OkStatus, Head(provider))
    /\ UNCHANGED <<tables, autoinc, sessions, op, returned>>

\* lines 190-193 (the second function named search_mentors_by_expertise)
search_service_providers(p) ==
    /\ pc[p] = "handler"
    /\ op[p].kind = "search_service_providers"
    /\ LET found == WhereServiceTypeILike(providers, SearchPattern(op[p].service_type))
       IN  IF found = <<>>
           THEN Respond(p, NotFoundStatus, "No mentors found with the given expertise")
           ELSE Respond(p, OkStatus, found)
    /\ UNCHANGED <<tables, autoinc, sessions, op, returned>>


\* ------------------------------------------------------------ specifications
Caps(n) == [t \in {"users", "mentors", "service_providers"} |-> n]

OneInput(inputs) == {CHOOSE f \in inputs : TRUE}

\* Spec: every handler, NumProcs workers
Requests ==
    RegisterRequests(OneInput(UserInputs), OneInput(MentorInputs),
                     OneInput(ProviderInputs))
    \cup {r \in ListRequests({1}, {1}) : DOMAIN r.params = {"skip", "limit"}}
    \cup SearchRequests({<<"d">>})
    \cup GetRequests({1})

Handler(p) ==
    \/ register_user_check(p)
    \/ register_user_commit(p)
    \/ fetch_users(p)
    \/ register_mentor(p)
    \/ fetch_mentors(p)
    \/ search_mentors_by_expertise(p)
    \/ register_service_provider(p)
    \/ fetch_service_providers(p)
    \/ fetch_service_provider(p)
    \/ search_service_providers(p)

Next ==
    \E p \in Procs :
        \/ get_db(p, Requests, Caps(MaxRows))
        \/ Handler(p)
        \/ get_db_close(p)

Spec == Init /\ [][Next]_vars

\* SpecUsers: the user handlers, NumProcs workers
UserRequests ==
    RegisterRequests(UserInputs, {}, {}) \cup
    {r \in ListRequests({0}, {MaxRows}) : r.kind = "fetch_users"}

NextUsers ==
    \E p \in Procs :
        \/ get_db(p, UserRequests, Caps(MaxRows))
        \/ register_user_check(p)
        \/ register_user_commit(p)
        \/ fetch_users(p)
        \/ get_db_close(p)

SpecUsers == Init /\ [][NextUsers]_vars

\* SpecProviders: registration and lookup of service providers, NumProcs workers
ProviderRequests ==
    RegisterRequests({}, {}, ProviderInputs) \cup GetRequests(0..(MaxRows + 1))

NextProviders ==
    \E p \in Procs :
        \/ get_db(p, ProviderRequests, Caps(MaxRows))
        \/ register_service_provider(p)
        \/ fetch_service_provider(p)
        \/ get_db_close(p)

SpecProviders == Init /\ [][NextProviders]_vars

\* SpecList: one worker registers records and pages through the tables
ListSpecRequests ==
    RegisterRequests(OneInput(UserInputs), OneInput(MentorInputs),
                     OneInput(ProviderInputs))
    \cup ListRequests(0..MaxSkip, 0..MaxLimit)

ListCaps == [Caps(1) EXCEPT !["mentors"] = MaxListRows]

NextList ==
    \/ get_db(1, ListSpecRequests, ListCaps)
    \/ register_user_check(1)
    \/ register_user_commit(1)
    \/ register_mentor(1)
    \/ register_service_provider(1)
    \/ fetch_users(1)
    \/ fetch_mentors(1)
    \/ fetch_service_providers(1)
    \/ get_db_close(1)

SpecList == Init /\ [][NextList]_vars

\* SpecSearch: one worker registers mentors and providers and searches them
SearchSpecRequests ==
    RegisterRequests({}, MentorInputs, ProviderInputs)
    \cup SearchRequests(TextsUpTo(MaxQueryLen))

NextSearch ==
    \/ get_db(1, SearchSpecRequests, Caps(MaxRows))
    \/ register_mentor(1)
    \/ register_service_provider(1)
    \/ search_mentors_by_expertise(1)
    \/ search_service_providers(1)
    \/ get_db_close(1)

SpecSearch == Init /\ [][NextSearch]_vars


\* ------------------------------------------------------------------ claims
Closing(p, kind) == pc[p] = "closing" /\ op[p].kind = kind
EmailUsed(email) == \E i \in 1..Len(users) : users[i].email = email
RowsWithEmail(table, email) == {i \in 1..Len(table) : table[i].email = email}
Ids(table) == {table[i].id : i \in 1..Len(table)}

\* C1: a register_user call whose email is the email of a row already in the
\* store ends with status 400, and no step of that call changes any table;
\* the store keeps exactly one row with that email.
C1_DuplicateEmailConflict ==
    [][\A p \in Procs :
        /\ (/\ op[p].kind = "register_user"
            /\ pc[p] = "handler"
            /\ EmailUsed(op[p].form.email)
            /\ pc'[p] # pc[p])
           => /\ pc'[p] = "closing"
              /\ result'[p].status_code = ConflictStatus
              /\ tables' = tables
              /\ Cardinality(RowsWithEmail(users', op[p].form.email)) = 1
        /\ (/\ Closing(p, "register_user")
            /\ result[p].status_code = ConflictStatus
            /\ pc'[p] # pc[p])
           => /\ pc'[p] = "idle"
              /\ tables' = tables]_vars

C1_Witness ==
    \E p \in Procs :
        /\ Closing(p, "register_user")
        /\ result[p].status_code = ConflictStatus
        /\ EmailUsed(op[p].form.email)

\* C2: in every reachable state no two rows of users have the same email.
C2_EmailUnique ==
    \A i, j \in 1..Len(users) : i # j => users[i].email # users[j].email

\* two calls passed the existence check for one email and one of them has
\* inserted its row
C2_Witness ==
    \E p, q \in Procs :
        /\ p # q
        /\ Closing(p, "register_user") /\ result[p].status_code = OkStatus
        /\ op[q].kind = "register_user" /\ pc[q] = "commit"
        /\ op[q].form.email = op[p].form.email

\* C3: every register_user call that ends without having inserted a row ends
\* with status 400.
C3_EveryFailureIsConflict ==
    \A p \in Procs :
        (Closing(p, "register_user") /\ result[p].status_code # OkStatus)
            => result[p].status_code = ConflictStatus

\* C4: a successful register_user has stored a row whose password_hash is set
\* and differs from the raw password, and answers with exactly the fields id,
\* name, email, phone, preferred_language, role, taken from the form and the
\* generated id; forms that differ only in the password get equal responses
\* for equal ids.
PublicFields == {"id", "name", "email", "phone", "preferred_language", "role"}

C4_ResponseHidesPassword ==
    /\ \A p \in Procs :
        (Closing(p, "register_user") /\ result[p].status_code = OkStatus) =>
            LET body == result[p].body
                form == op[p].form
            IN  /\ DOMAIN body = PublicFields
                /\ \A f \in PublicFields \ {"id"} : body[f] = form[f]
                /\ \E i \in 1..Len(users) :
                    /\ users[i].id = body.id
                    /\ \A f \in PublicFields \ {"id"} : users[i][f] = form[f]
                    /\ users[i].password_hash # None
                    /\ users[i].password_hash # form.password
    /\ \A f1, f2 \in UserInputs : \A s1, s2 \in Salts :
        (\A f \in PublicFields \ {"id"} : f1[f] = f2[f]) =>
            UserResponse(UserRow(1, f1, HashPassword(f1.password, s1)))
                = UserResponse(UserRow(1, f2, HashPassword(f2.password, s2)))

C4_Witness ==
    \E p \in Procs :
        /\ Closing(p, "register_user")
        /\ result[p].status_code = OkStatus
        /\ op[p].form.password = <<"q", "p">>
        /\ Len(users) = 2


\* C5: list(skip, limit) answers the records at positions skip+1 ..
\* min(skip+limit, n) of its table, in insertion order; a parameter left out
\* counts as skip 0 and limit 10.
ListedTable(kind) ==
    CASE kind = "fetch_users" -> users
      [] kind = "fetch_mentors" -> mentors
      [] kind = "fetch_service_providers" -> providers

C5_ListWindow ==
    \A p \in {1} : \A kind \in {"fetch_users", "fetch_mentors", "fetch_service_providers"} :
        Closing(p, kind) =>
            LET rows == ListedTable(kind)
                n == Len(rows)
                skip == IF "skip" \in DOMAIN op[p].params THEN op[p].params["skip"] ELSE 0
                limit == IF "limit" \in DOMAIN op[p].params
                         THEN op[p].params["limit"] ELSE 10
                body == result[p].body
            IN  /\ result[p].status_code = OkStatus
                /\ Len(body) = Min(limit, Max(0, n - skip))
                /\ \A i \in 1..Len(body) : body[i] = rows[skip + i]

\* list(0, 10) and list() over 15 mentors: the first 10
C5_Witness ==
    /\ Len(mentors) = 15
    /\ Closing(1, "fetch_mentors")
    /\ op[1].params = <<>>
    /\ Len(result[1].body) = 10
    /\ result[1].body[10].id = 10

\* C6: a search answers exactly the stored records whose field contains the
\* query as a literal substring, letter case ignored, and 404 exactly when
\* there is none; for every query, '%' and '_' included.
Contains(text, q) ==
    \E k \in 0..(Len(text) - Len(q)) :
        SubSeq(LowerText(text), k + 1, k + Len(q)) = LowerText(q)

C6_SearchIsLiteralSubstring ==
    /\ Closing(1, "search_mentors_by_expertise") =>
        LET hits == SelectSeq(mentors, LAMBDA row : Contains(row.expertise, op[1].expertise))
        IN  IF hits = <<>> THEN result[1].status_code = NotFoundStatus
            ELSE result[1].status_code = OkStatus /\ result[1].body = hits
    /\ Closing(1, "search_service_providers") =>
        LET hits == SelectSeq(providers,
                              LAMBDA row : Contains(row.service_type, op[1].service_type))
        IN  IF hits = <<>> THEN result[1].status_code = NotFoundStatus
            ELSE result[1].status_code = OkStatus /\ result[1].body = hits

\* C7: get(id) ends with 404 exactly when no provider row has that id at the
\* time of the call; otherwise it answers the one row with that id.  An id no
\* register call has returned gives 404.
GetStep(p) ==
    /\ pc[p] = "handler"
    /\ op[p].kind = "fetch_service_provider"
    /\ pc'[p] = "closing"

C7_GetNotFoundIffAbsent ==
    [][\A p \in Procs : GetStep(p) =>
        LET id == op[p].provider_id
            at == {i \in 1..Len(providers) : providers[i].id = id}
        IN  /\ result'[p].status_code \in {OkStatus, NotFoundStatus}
            /\ result'[p].status_code = NotFoundStatus <=> at = {}
            /\ result'[p].status_code = OkStatus =>
                  /\ Cardinality(at) = 1
                  /\ \A i \in at : result'[p].body = providers[i]
            /\ id \notin {g.id : g \in returned} =>
                  result'[p].status_code = NotFoundStatus]_vars

C7_Witness ==
    \E p, q \in Procs :
        /\ Closing(p, "fetch_service_provider")
        /\ result[p].status_code = OkStatus
        /\ result[p].body.id = 2
        /\ Closing(q, "fetch_service_provider")
        /\ result[q].status_code = NotFoundStatus
        /\ providers # <<>>

\* C8: get(id) with an id that a register call returned answers a record
\* equal to that call's input in all five fields, whatever other calls ran in
\* between; a register call returns an id no other provider row has.
ProviderFields == {"name", "service_type", "experience", "pricing_model", "availability"}

RegisterProviderStep(p) ==
    /\ pc[p] = "handler"
    /\ op[p].kind = "register_service_provider"
    /\ pc'[p] = "closing"

C8_RegisterGetRoundTrip ==
    [][\A p \in Procs :
        /\ GetStep(p) =>
            \A g \in returned : g.id = op[p].provider_id =>
                /\ result'[p].status_code = OkStatus
                /\ result'[p].body.id = g.id
                /\ \A f \in ProviderFields : result'[p].body[f] = g.form[f]
        /\ RegisterProviderStep(p) =>
            /\ result'[p].status_code = OkStatus
            /\ result'[p].body.id \notin Ids(providers)
            /\ Cardinality(Ids(providers')) = Len(providers')
            /\ \A f \in ProviderFields : result'[p].body[f] = op[p].form[f]]_vars

\* a get of the first registered id after a second provider was registered
C8_Witness ==
    \E p \in Procs :
        /\ Closing(p, "fetch_service_provider")
        /\ result[p].status_code = OkStatus
        /\ Len(providers) = 2
        /\ providers[1].name # providers[2].name
        /\ \E g \in returned : g.id = op[p].provider_id /\ g.id = 1

\* C9: the only change to the store is that a successful register appends
\* one record to its own table: records persist unchanged, and every other
\* step (list, get, search, failed register, session open and close) leaves
\* the three tables as they are.
Persists(old, new) ==
    /\ Len(new) >= Len(old)
    /\ \A i \in 1..Len(old) : new[i] = old[i]

Registered(p, kind) ==
    /\ op[p].kind = kind
    /\ pc[p] # "closing"
    /\ pc'[p] = "closing"
    /\ result'[p].status_code = OkStatus

C9_AppendOnly ==
    [][/\ Persists(users, users')
       /\ Persists(mentors, mentors')
       /\ Persists(providers, providers')
       /\ users' # users =>
            /\ Len(users') = Len(users) + 1
            /\ mentors' = mentors /\ providers' = providers
            /\ \E p \in Procs : Registered(p, "register_user")
       /\ mentors' # mentors =>
            /\ Len(mentors') = Len(mentors) + 1
            /\ users' = users /\ providers' = providers
            /\ \E p \in Procs : Registered(p, "register_mentor")
       /\ providers' # providers =>
            /\ Len(providers') = Len(providers) + 1
            /\ users' = users /\ mentors' = mentors
            /\ \E p \in Procs : Registered(p, "register_service_provider")
       /\ (\A p \in Procs : \A kind \in RegisterKinds : ~Registered(p, kind))
            => tables' = tables]_vars

\* all three tables hold records and a register call has just failed at commit
C9_Witness ==
    /\ users # <<>> /\ Len(mentors) >= 2 /\ Len(providers) >= 2
    /\ \E p \in Procs :
        Closing(p, "register_user") /\ result[p].status_code = ServerErrorStatus

\* C10: the number of open sessions equals the number of calls in flight, and
\* is 0 when no call is in flight.
InFlight == {p \in Procs : pc[p] # "idle"}

C10_SessionPerCall == sessions = Cardinality(InFlight)

\* a call that failed at commit has ended, and nothing is in flight
C10_Witness ==
    /\ InFlight = {}
    /\ sessions = 0
    /\ autoinc["users"] > Len(users) + 1

====
